---- MODULE Spec2Model ----
(***************************************************************************)
(* Vault cache of obsidian-api: the in-memory path -> document cache, the  *)
(* debounced per-path updates driven by the filesystem watcher, the manual *)
(* reload and the scope release.                                           *)
(*                                                                         *)
(* The repository holds two implementations of the cache, and the model    *)
(* runs either one (variable impl):                                        *)
(*   "cm"  src/vault/cache-manager.ts (CacheManager, debounce fibers kept  *)
(*         in the Ref debouncedUpdates) with the VaultService of           *)
(*         src/vault/service.ts and the FileLoader of                      *)
(*         src/vault/file-loader.ts (two revisions, variable loader);      *)
(*   "vc"  src/vault-cache/service.ts (VaultCache, setTimeout handles kept *)
(*         in the Map pendingUpdates).                                     *)
(*                                                                         *)
(* The filesystem is the state of each path (kind, version stamp); an fs   *)
(* call observes the path when the call completes.  A fiber is suspended   *)
(* only at its asynchronous calls (sleep, fs.exists, fs.stat,              *)
(* fs.readFileString), so the code between two of them is one step.        *)
(***************************************************************************)
EXTENDS Integers, Sequences, FiniteSets, TLC

\* ------------------------------------------------------------------ bounds
MaxChanges == 1          \* filesystem changes in one behaviour
MaxEvents == 2           \* watch events in one behaviour
MaxEventsQ == 1          \* watch events in one behaviour with queries and reloads
MaxFiles == 12           \* files discovered by one walk

\* ------------------------------------------------------------- filesystem
\* PathSeq is the order in which readDirectory lists the vault's entries.
PathSeq == <<"a.md", "b.md">>
Paths == {PathSeq[i] : i \in 1..Len(PathSeq)}

\* What a path can be on disk:
\*   none      nothing there
\*   file      regular file, readable, metadata block decodes (or is absent)
\*   badfm     regular file, readable, metadata block does not decode
\*   dir       directory
\*   noaccess  entry on which access() and stat() fail (not with NotFound)
\*   noread    regular file that cannot be read
\*   noreaddir directory on which readDirectory fails
\* Kinds are what a watched path becomes; a vault that is loaded may also
\* hold files that cannot be read (LoadKinds).
Kinds == {"none", "file", "badfm", "dir", "noaccess"}
LoadKinds == Kinds \cup {"noread"}
RegularKinds == {"file", "badfm", "noread"}

\* fs.exists: true / false / error
FsExists(k) ==
  IF k = "none" THEN "false" ELSE IF k = "noaccess" THEN "error" ELSE "true"

\* fs.stat: the entry type, or error
FsStat(k) ==
  IF k \in RegularKinds THEN "File"
  ELSE IF k \in {"dir", "noreaddir"} THEN "Directory" ELSE "error"

\* fs.readFileString: ok (the text of the file) or error
FsRead(k) == IF k \in {"file", "badfm"} THEN "ok" ELSE "error"

\* parseFrontmatter on the text of a file of kind k
ParseOk(k) == k = "file"

\* -------------------------------------------------------------- documents
\* config.vaultPath joined with a relative path (path.join)
AbsPath(p) == IF p = "a.md" THEN "/vault/a.md" ELSE "/vault/b.md"

\* A cached document is the version of the file it was read from, the form
\* of its content: "body" (metadata block parsed and removed), "text" (the
\* whole text of the file), "empty" (the '' of a failed read), and the path
\* field of the VaultFile ("" for the VaultCache, whose values are plain
\* strings).  NoDoc is the result of looking up a key that is not in the map.
NoDoc == [ver |-> 0, form |-> "absent", path |-> ""]
MkDoc(v, f, a) == [ver |-> v, form |-> f, path |-> a]

\* JavaScript Map: insertion-ordered sequence of entries
MapHas(m, k) == \E i \in 1..Len(m) : m[i].key = k
MapGet(m, k) ==
  IF MapHas(m, k) THEN m[CHOOSE i \in 1..Len(m) : m[i].key = k].doc ELSE NoDoc
MapSet(m, k, d) ==
  IF MapHas(m, k)
  THEN [i \in 1..Len(m) |-> IF m[i].key = k THEN [key |-> k, doc |-> d] ELSE m[i]]
  ELSE Append(m, [key |-> k, doc |-> d])
MapDelete(m, k) == SelectSeq(m, LAMBDA e : e.key # k)
EmptyMap == << >>

\* new Map(entries): later entries with the same key replace earlier ones
RECURSIVE MapFrom(_)
MapFrom(es) ==
  IF es = << >> THEN EmptyMap
  ELSE MapSet(MapFrom(SubSeq(es, 1, Len(es) - 1)), es[Len(es)].key, es[Len(es)].doc)

\* ----------------------------------------------------------------- loader
\* FileLoader.loadFile, first revision: a metadata block that does not
\* decode falls back to empty metadata and the whole text.
loadFile1(a, d) ==
  IF FsRead(d.kind) = "error" THEN [ok |-> FALSE, doc |-> NoDoc]
  ELSE IF ParseOk(d.kind) THEN [ok |-> TRUE, doc |-> MkDoc(d.ver, "body", a)]
  ELSE [ok |-> TRUE, doc |-> MkDoc(d.ver, "text", a)]

\* FileLoader.loadFile, second revision: the decode error propagates.
loadFile2(a, d) ==
  IF FsRead(d.kind) = "error" THEN [ok |-> FALSE, doc |-> NoDoc]
  ELSE IF ParseOk(d.kind) THEN [ok |-> TRUE, doc |-> MkDoc(d.ver, "body", a)]
  ELSE [ok |-> FALSE, doc |-> NoDoc]

loadFile(ld, a, d) == IF ld = 1 THEN loadFile1(a, d) ELSE loadFile2(a, d)

\* loadFileContent of the VaultCache: the text, or '' when the read fails
loadFileContent(d) ==
  IF FsRead(d.kind) = "error" THEN MkDoc(0, "empty", "") ELSE MkDoc(d.ver, "text", "")

\* The walk of the (flat) vault root, as relative paths: a stat error on
\* one entry fails the forEach of the directory, which the caller turns
\* into no files at all; a directory entry is walked and holds no files.
WalkFails(dk) == \E p \in Paths : dk[p].kind # "none" /\ FsStat(dk[p].kind) = "error"
WalkFiles(dk) ==
  IF WalkFails(dk) THEN << >>
  ELSE SelectSeq(PathSeq, LAMBDA p : FsStat(dk[p].kind) = "File")

\* FileLoader.loadAllFiles, first revision: walk, then load every file; a
\* file that fails to load becomes an entry with empty content.
loadAllFiles1(dk) ==
  LET fs == WalkFiles(dk)
  IN MapFrom([i \in 1..Len(fs) |->
       [key |-> fs[i],
        doc |-> IF loadFile1(AbsPath(fs[i]), dk[fs[i]]).ok
                THEN loadFile1(AbsPath(fs[i]), dk[fs[i]]).doc
                ELSE MkDoc(0, "empty", AbsPath(fs[i]))]])

\* FileLoader.loadAllFiles, second revision (walkAndLoad): a file that
\* fails to load contributes no entry.
loadAllFiles2(dk) ==
  LET fs == SelectSeq(WalkFiles(dk), LAMBDA p : loadFile2(AbsPath(p), dk[p]).ok)
  IN MapFrom([i \in 1..Len(fs) |->
       [key |-> fs[i], doc |-> loadFile2(AbsPath(fs[i]), dk[fs[i]]).doc]])

\* loadAllFiles of the VaultCache
loadAllFilesVC(dk) ==
  LET fs == WalkFiles(dk)
  IN MapFrom([i \in 1..Len(fs) |-> [key |-> fs[i], doc |-> loadFileContent(dk[fs[i]])]])

LoadAll(im, ld, dk) ==
  IF im = "vc" THEN loadAllFilesVC(dk)
  ELSE IF ld = 1 THEN loadAllFiles1(dk) ELSE loadAllFiles2(dk)

\* ------------------------------------------------------------------ state
VARIABLES
  impl,      \* "cm" or "vc": which cache implementation runs
  loader,    \* revision of FileLoader used by "cm" (1 or 2); 0 for "vc"
  phase,     \* "init", "loaded", "up", "stopping", "down"
  disk,      \* the vault on disk: path -> [kind, ver]
  clock,     \* number of filesystem changes so far
  cache,     \* the entries of the Map object that cacheRef holds
  pending,   \* debouncedUpdates / pendingUpdates: path -> id of the handle, 0 if none
  tasks,     \* the debounce fibers / timers and the running updateFile calls
  lastEv,    \* path -> number of '.md' watch events handled for it
  reader,    \* a query that has obtained the Map from the Ref and not yet returned
  rl,        \* a reload() of the VaultCache in progress
  burst,     \* history: path -> events and timer firings of its current burst
  lastApply, \* history: path -> what the last finished updateFile observed and did
  rg,        \* history: reload() calls in a row with nothing in between
  hist,      \* whether the history of the updates (burst, lastApply) is recorded
  call       \* one call of a function of the loader or of the service, on its own

vars == <<impl, loader, phase, disk, clock, cache, pending,
          tasks, lastEv, reader, rl, burst, lastApply, rg, hist, call>>

\* reader.alias: the Map object the reader holds is the one the Ref holds;
\* reader.map: the entries of the object the reader holds;
\* reader.snap: history, the entries the Ref held when the reader got it.
NoReader == [held |-> FALSE, alias |-> FALSE, map |-> EmptyMap, snap |-> EmptyMap]
NoReload == [pc |-> "idle", files |-> << >>, docs |-> [p \in Paths |-> NoDoc],
             done |-> {}, clean |-> FALSE]
NoBurst == [n |-> 0, fires |-> 0, ver0 |-> 0]
NeverApplied == [ev |-> 0, obs |-> "never", doc |-> NoDoc, full |-> "never", wev |-> 0]
NoRow == [row |-> 0, first |-> EmptyMap]
NoCall == [op |-> "none"]

\* The vault when the process starts: every path is absent or a regular file.
InitVault ==
  /\ impl \in {"cm", "vc"}
  /\ loader \in (IF impl = "cm" THEN {1, 2} ELSE {0})
  /\ phase = "init"
  /\ disk \in [Paths -> {[kind |-> "none", ver |-> 0], [kind |-> "file", ver |-> 0]}]
  /\ clock = 0
  /\ cache = EmptyMap
  /\ pending = [p \in Paths |-> 0]
  /\ tasks = {}
  /\ lastEv = [p \in Paths |-> 0]
  /\ reader = NoReader
  /\ rl = NoReload
  /\ burst = [p \in Paths |-> NoBurst]
  /\ lastApply = [p \in Paths |-> NeverApplied]
  /\ rg = NoRow
  /\ call = NoCall

\* The specification of the watcher, the debounced updates and the release
\* records the history of the updates; the one of reload and the queries
\* does not.
Init == InitVault /\ hist = TRUE
InitQ == InitVault /\ hist = FALSE

\* Anything that is a filesystem change or the handling of a watch event
\* ends a row of reload() calls and marks a reload in progress as disturbed.
Disturbed == rg' = NoRow
DisturbedReload == rl' = IF rl.pc = "idle" THEN rl ELSE [rl EXCEPT !.clean = FALSE]

\* ------------------------------------------------------------ the Ref
\* a write that changes the Map object the Ref already holds: a reader
\* holding that object sees the change
RefSwapInPlace(m) ==
  /\ cache' = m
  /\ reader' = IF reader.alias THEN [reader EXCEPT !.map = m] ELSE reader

\* Ref.update(cacheRef, cache => { const newCache = new Map(cache); ...;
\* return newCache }) and Ref.set(cacheRef, newCache): the Ref is pointed at
\* a new Map object; a reader keeps the object it obtained.
RefSwap(m) ==
  /\ cache' = m
  /\ reader' = [reader EXCEPT !.alias = FALSE]

\* ---------------------------------------------------------- environment
\* The vault changes on disk while it is watched.
DiskChange(p, k) ==
  /\ phase = "up"
  /\ clock < MaxChanges
  /\ k # disk[p].kind \/ k \in {"file", "badfm"}
  /\ clock' = clock + 1
  /\ disk' = [disk EXCEPT ![p] = [kind |-> k, ver |-> @.ver + 1]]
  /\ Disturbed /\ DisturbedReload
  /\ UNCHANGED <<call, hist, impl, loader, phase, cache, pending, tasks, lastEv,
                 reader, burst, lastApply>>

\* ------------------------------------------------------------- start-up
\* const initialCache = yield* fileLoader.loadAllFiles;
\* const cacheRef = yield* Ref.make(initialCache)
InitialLoad ==
  /\ phase = "init"
  /\ phase' = "loaded"
  /\ cache' = LoadAll(impl, loader, disk)
  /\ UNCHANGED <<call, hist, impl, loader, disk, clock, pending, tasks, lastEv,
                 reader, rl, burst, lastApply, rg>>

\* the watcher forked before the initial load
StartWatcherBeforeLoad ==
  /\ phase = "init"
  /\ phase' = "up"
  /\ UNCHANGED <<call, hist, impl, loader, disk, clock, cache, pending, tasks,
                 lastEv, reader, rl, burst, lastApply, rg>>

\* Effect.fork(fs.watch(...).pipe(Stream.runForEach(...)))
StartWatcher ==
  /\ phase = "loaded"
  /\ phase' = "up"
  /\ UNCHANGED <<call, hist, impl, loader, disk, clock, cache, pending, tasks,
                 lastEv, reader, rl, burst, lastApply, rg>>

\* ------------------------------------------------------- scheduleUpdate
Sleeping(p) == {t \in tasks : t.path = p /\ t.pc = "sleep"}
NewTask(p) == [path |-> p, ev |-> lastEv[p] + 1, pc |-> "sleep", before |-> NoDoc]

\* scheduleUpdate that leaves the existing fiber / timer running
scheduleUpdateNoCancel(p) ==
  /\ tasks' = tasks \cup {NewTask(p)}
  /\ pending' = [pending EXCEPT ![p] = lastEv[p] + 1]

\* CacheManager.scheduleUpdate: the fiber recorded for the path is
\* interrupted (it ends, and its ensuring removes the path's record), a new
\* fiber is forked and recorded.
scheduleUpdateCM(p) ==
  /\ tasks' = {t \in tasks : ~(t.path = p /\ t.ev = pending[p])} \cup {NewTask(p)}
  /\ pending' = [pending EXCEPT ![p] = lastEv[p] + 1]

\* VaultCache.scheduleUpdate: the timeout recorded for the path is cleared,
\* a new timeout is set and recorded.
scheduleUpdateVC(p) ==
  /\ tasks' = {t \in tasks : ~(t.path = p /\ t.ev = pending[p] /\ t.pc = "sleep")}
                \cup {NewTask(p)}
  /\ pending' = [pending EXCEPT ![p] = lastEv[p] + 1]

RECURSIVE SumEv(_, _)
SumEv(f, i) == IF i > Len(PathSeq) THEN 0 ELSE f[PathSeq[i]] + SumEv(f, i + 1)
Handled == SumEv(lastEv, 1)

\* Stream.runForEach handler of the watcher: fs.watch reports an event for
\* a path ending in '.md' (one change may be reported several times, or
\* late, or not at all); limit bounds the events of a behaviour.
WatchEvent(p, limit) ==
  /\ phase = "up"
  /\ Handled < limit
  /\ IF impl = "cm" THEN scheduleUpdateCM(p) ELSE scheduleUpdateVC(p)
  /\ lastEv' = [lastEv EXCEPT ![p] = @ + 1]
  /\ burst' = IF ~hist THEN burst
              ELSE [burst EXCEPT ![p] =
                      IF Sleeping(p) # {}
                      THEN [@ EXCEPT !.n = @ + 1, !.ver0 = disk[p].ver]
                      ELSE [n |-> 1, fires |-> 0, ver0 |-> disk[p].ver]]
  /\ Disturbed /\ DisturbedReload
  /\ UNCHANGED <<call, hist, impl, loader, phase, disk, clock, cache, reader, lastApply>>

\* ----------------------------------------------------------- updateFile
\* an update that starts from an empty Map instead of a copy
upsertFresh(k, d) == RefSwap(MapSet(EmptyMap, k, d))

\* newCache = new Map(cache); newCache.set(relativePath, vaultFile)
upsert(k, d) == RefSwap(MapSet(cache, k, d))

\* a delete under the absolute path, which is not a key of the Map
removeAbsolute(k) == RefSwap(MapDelete(cache, AbsPath(k)))

\* newCache = new Map(cache); newCache.delete(relativePath)
remove(k) == RefSwap(MapDelete(cache, k))

\* The end of a debounce fiber / update: the CacheManager's ensuring removes
\* the path's record from debouncedUpdates; the VaultCache has removed it
\* when the timeout fired.
EndTask(t) ==
  /\ tasks' = tasks \ {t}
  /\ pending' = IF impl = "cm" THEN [pending EXCEPT ![t.path] = 0] ELSE pending

Record(t, o, d, wrote) ==
  lastApply' = IF ~hist THEN lastApply
               ELSE [lastApply EXCEPT ![t.path] =
                       [ev |-> t.ev, obs |-> o, doc |-> d,
                        full |-> IF o = "error" THEN @.full
                                 ELSE IF disk[t.path].kind \in RegularKinds
                                 THEN "yes" ELSE "no",
                        wev |-> IF wrote THEN t.ev ELSE @.wev]]

\* a failure handled as if the path had been deleted
failedRemoving(t) ==
  /\ remove(t.path)
  /\ EndTask(t)
  /\ Record(t, "error", NoDoc, FALSE)

\* the step of updateFile that fails: catchAll logs, nothing is written
failed(t) ==
  /\ UNCHANGED <<cache, reader>>
  /\ EndTask(t)
  /\ Record(t, "error", NoDoc, FALSE)

\* the debounce interval has elapsed: updateFile starts with fs.exists.
\* (VaultCache: the timeout callback first deletes the path's record.)
TimerFire(t) ==
  /\ t \in tasks /\ t.pc = "sleep"
  /\ tasks' = (tasks \ {t}) \cup
                {[t EXCEPT !.pc = "exists",
                            !.before = IF hist THEN MapGet(cache, t.path) ELSE @]}
  /\ pending' = IF impl = "vc" THEN [pending EXCEPT ![t.path] = 0] ELSE pending
  /\ burst' = IF hist THEN [burst EXCEPT ![t.path].fires = @ + 1] ELSE burst
  /\ Disturbed /\ DisturbedReload
  /\ UNCHANGED <<call, hist, impl, loader, phase, disk, clock, cache, lastEv,
                 reader, lastApply>>

\* fs.exists returns
ExistsDone(t) ==
  /\ t \in tasks /\ t.pc = "exists"
  /\ LET r == FsExists(disk[t.path].kind)
     IN \/ /\ r = "true"
           /\ tasks' = (tasks \ {t}) \cup {[t EXCEPT !.pc = "stat"]}
           /\ UNCHANGED <<cache, reader, pending, lastApply>>
        \/ /\ r = "false"
           /\ remove(t.path)
           /\ EndTask(t)
           /\ Record(t, "missing", NoDoc, TRUE)
        \/ /\ r = "error"
           /\ failed(t)
  /\ Disturbed /\ DisturbedReload
  /\ UNCHANGED <<call, hist, impl, loader, phase, disk, clock, lastEv, burst>>

\* an update that deletes the entry of a path that is not a regular file
notRegularRemoving(t) == remove(t.path)

\* if (statResult.type === 'File' && filePath.endsWith('.md')) { ... } has
\* no else: an entry that is not a regular file is neither loaded nor deleted
notRegular(t) == UNCHANGED <<cache, reader>>

\* fs.stat returns
StatDone(t) ==
  /\ t \in tasks /\ t.pc = "stat"
  /\ LET r == FsStat(disk[t.path].kind)
     IN \/ /\ r = "File"
           /\ tasks' = (tasks \ {t}) \cup {[t EXCEPT !.pc = "read"]}
           /\ UNCHANGED <<cache, reader, pending, lastApply>>
        \/ /\ r = "Directory"
           /\ notRegular(t)
           /\ EndTask(t)
           /\ Record(t, "other", NoDoc, FALSE)
        \/ /\ r = "error"
           /\ failed(t)
  /\ Disturbed /\ DisturbedReload
  /\ UNCHANGED <<call, hist, impl, loader, phase, disk, clock, lastEv, burst>>

\* CacheManager: fileLoader.loadFile returns (read, parse, metrics), then
\* the Ref.update, the log line and the ensuring run without suspension.
ReadDoneCM(t) ==
  /\ impl = "cm"
  /\ t \in tasks /\ t.pc = "read"
  /\ LET lf == loadFile(loader, AbsPath(t.path), disk[t.path])
     IN \/ /\ lf.ok
           /\ upsert(t.path, lf.doc)
           /\ EndTask(t)
           /\ Record(t, "file", lf.doc, TRUE)
        \/ /\ ~lf.ok
           /\ failed(t)
  /\ Disturbed /\ DisturbedReload
  /\ UNCHANGED <<call, hist, impl, loader, phase, disk, clock, lastEv, burst>>

\* VaultCache: loadFileContent returns (the text, or '' on a read error),
\* then the Ref.update.
ReadDoneVC(t) ==
  /\ impl = "vc"
  /\ t \in tasks /\ t.pc = "read"
  /\ LET d == loadFileContent(disk[t.path])
     IN /\ upsert(t.path, d)
        /\ EndTask(t)
        /\ Record(t, "file", d, TRUE)
  /\ Disturbed /\ DisturbedReload
  /\ UNCHANGED <<call, hist, impl, loader, phase, disk, clock, lastEv, burst>>

\* ---------------------------------------------------------- scope release
\* the fibers / timers that the release of the scope leaves alive
survivorsCM(ts) == {}
survivorsVC(ts) == {t \in ts : t.pc # "sleep"}

\* First step of the release: Fiber.interrupt(watcher fiber).  The events
\* not yet handled are dropped with the stream.  In the CacheManager the
\* debounce fibers were forked by the watcher fiber, so they are its
\* children: the interruption of the watcher interrupts them and waits for
\* their finalizers (which empty debouncedUpdates).
ReleaseInterruptWatcher ==
  /\ phase = "up"
  /\ phase' = "stopping"
  /\ IF impl = "cm"
     THEN /\ tasks' = survivorsCM(tasks)
          /\ pending' = [p \in Paths |-> IF \E t \in tasks' : t.path = p
                                         THEN pending[p] ELSE 0]
     ELSE UNCHANGED <<tasks, pending>>
  /\ rl' = NoReload
  /\ UNCHANGED <<call, hist, impl, loader, disk, clock, cache, lastEv, reader,
                 burst, lastApply, rg>>

\* Second step: the CacheManager interrupts every fiber still recorded in
\* debouncedUpdates; the VaultCache clears every timeout recorded in
\* pendingUpdates and empties the map.
ReleaseCancelPending ==
  /\ phase = "stopping"
  /\ phase' = "down"
  /\ tasks' = IF impl = "cm"
              THEN {t \in tasks : pending[t.path] # t.ev}
              ELSE survivorsVC(tasks)
  /\ pending' = [p \in Paths |-> 0]
  /\ UNCHANGED <<call, hist, impl, loader, disk, clock, cache, lastEv,
                 reader, rl, burst, lastApply, rg>>

\* ---------------------------------------------------------------- queries
\* getCacheWithFallback: Ref.get(cacheRef); the query then works on the Map
\* object it obtained.
ReadBegin ==
  /\ phase = "up"
  /\ ~reader.held
  /\ reader' = [held |-> TRUE, alias |-> TRUE, map |-> cache, snap |-> cache]
  /\ UNCHANGED <<call, hist, impl, loader, phase, disk, clock, cache, pending,
                 tasks, lastEv, rl, burst, lastApply, rg>>

\* the query returns
ReadEnd ==
  /\ reader.held
  /\ reader' = NoReader
  /\ UNCHANGED <<call, hist, impl, loader, phase, disk, clock, cache, pending,
                 tasks, lastEv, rl, burst, lastApply, rg>>

\* the words searched for: none, and one that occurs in every text
\* String.prototype.startsWith / endsWith
startsWith(s, pre) == Len(s) >= Len(pre) /\ SubSeq(s, 1, Len(pre)) = pre
endsWith(s, suf) == Len(s) >= Len(suf) /\ SubSeq(s, Len(s) - Len(suf) + 1, Len(s)) = suf

\* String.prototype.trim
WhiteSpace == {" ", "\t", "\n"}
RECURSIVE trim(_)
trim(s) ==
  IF s = "" THEN s
  ELSE IF SubSeq(s, 1, 1) \in WhiteSpace THEN trim(SubSeq(s, 2, Len(s)))
  ELSE IF SubSeq(s, Len(s), Len(s)) \in WhiteSpace THEN trim(SubSeq(s, 1, Len(s) - 1))
  ELSE s

Queries == {"", " ", " \t ", "x"}

\* searchInContent: nothing for a query of several white-space characters,
\* else one result for each line of the content that contains the query (a
\* text has one such line, the '' of a failed read has none)
searchInContent(filePath, d, q) ==
  IF Len(q) > 1 /\ trim(q) = "" THEN << >>
  ELSE IF d.form \in {"body", "text"}
  THEN <<[filePath |-> filePath, lineNumber |-> 1, ver |-> d.ver]>>
  ELSE << >>

\* getAllFiles: path -> content, in the order of the cache
getAllFiles(c) ==
  [i \in 1..Len(c) |-> [key |-> c[i].key, content |-> [ver |-> c[i].doc.ver,
                                                        form |-> c[i].doc.form]]]

\* searchInFiles: the results of every entry, in the order of the cache.  The
\* VaultService reports vaultFile.path, the VaultCache the key of the entry.
\* only the empty query is answered without a search
blankQueryEmptyOnly(q) == q = ""

\* !query || query.trim() === ''
blankQuery(q) == q = "" \/ trim(q) = ""

RECURSIVE searchInFiles(_, _, _)
searchInFiles(im, c, q) ==
  IF blankQuery(q) \/ c = << >> THEN << >>
  ELSE searchInFiles(im, SubSeq(c, 1, Len(c) - 1), q) \o
       searchInContent(IF im = "cm" THEN c[Len(c)].doc.path ELSE c[Len(c)].key,
                       c[Len(c)].doc, q)

\* ----------------------------------------------------------------- reload
Completed(clean, c) ==
  rg' = IF clean
        THEN [row |-> IF rg.row = 0 THEN 1 ELSE 2,
              first |-> IF rg.row = 0 THEN c ELSE rg.first]
        ELSE NoRow

\* a reload that evicts the oldest entry
reloadEvicting ==
  IF cache = EmptyMap THEN UNCHANGED <<cache, reader>> ELSE RefSwap(Tail(cache))

\* VaultService.reload: reads the Ref and logs the size of what it read
reloadVS == UNCHANGED <<cache, reader>>

\* a reload that cancels the armed timers of the per-path updates
reloadCancelling ==
  /\ tasks' = {t \in tasks : t.pc # "sleep"}
  /\ pending' = [p \in Paths |-> 0]

\* reload has no statement on debouncedUpdates / pendingUpdates or on the
\* fibers / timers
reloadDebounce == UNCHANGED <<pending, tasks>>

ReloadVS ==
  /\ impl = "cm"
  /\ phase = "up"
  /\ reloadVS
  /\ reloadDebounce
  /\ Completed(TRUE, cache')
  /\ UNCHANGED <<call, hist, impl, loader, phase, disk, clock,
                 lastEv, rl, burst, lastApply>>

\* VaultCache.reload: loadAllFiles (the walk, then the reads, up to 10 at a
\* time, collected in the order of the walk), then Ref.set.
ReloadBegin ==
  /\ impl = "vc"
  /\ phase = "up"
  /\ rl.pc = "idle"
  /\ rl' = [pc |-> "reading", files |-> WalkFiles(disk),
            docs |-> [p \in Paths |-> NoDoc], done |-> {}, clean |-> TRUE]
  /\ UNCHANGED <<call, hist, impl, loader, phase, disk, clock, cache, pending,
                 tasks, lastEv, reader, burst, lastApply, rg>>

\* new Map(fileContents)
reloaded(files, docs) ==
  MapFrom([i \in 1..Len(files) |-> [key |-> files[i], doc |-> docs[files[i]]]])

RlFiles == {rl.files[i] : i \in 1..Len(rl.files)}

\* one loadFileContent of the forEach returns, and it is not the last one
ReloadRead(p) ==
  /\ phase = "up"
  /\ rl.pc = "reading"
  /\ p \in RlFiles \ rl.done
  /\ rl.done \cup {p} # RlFiles
  /\ rl' = [rl EXCEPT !.docs[p] = loadFileContent(disk[p]), !.done = @ \cup {p}]
  /\ UNCHANGED <<call, hist, impl, loader, phase, disk, clock, cache, pending,
                 tasks, lastEv, reader, burst, lastApply, rg>>

\* the last loadFileContent returns (or the walk found no file): the Map is
\* built and Ref.set installs it, without suspension in between
ReloadSet ==
  /\ phase = "up"
  /\ rl.pc = "reading"
  /\ \E last \in SUBSET (RlFiles \ rl.done) :
       /\ rl.done \cup last = RlFiles
       /\ Cardinality(last) = IF RlFiles = {} THEN 0 ELSE 1
       /\ RefSwap(reloaded(rl.files,
                  [p \in Paths |-> IF p \in last THEN loadFileContent(disk[p])
                                   ELSE rl.docs[p]]))
  /\ reloadDebounce
  /\ Completed(rl.clean, cache')
  /\ rl' = NoReload
  /\ UNCHANGED <<call, hist, impl, loader, phase, disk, clock,
                 lastEv, burst, lastApply>>

\* ------------------------------------------------------------------- spec
\* The vault, the watcher, the debounced updates and the release of the scope
Next ==
  \/ \E p \in Paths, k \in Kinds : DiskChange(p, k)
  \/ InitialLoad
  \/ StartWatcher
  \/ \E p \in Paths : WatchEvent(p, MaxEvents)
  \/ \E t \in tasks : TimerFire(t)
  \/ \E t \in tasks : ExistsDone(t)
  \/ \E t \in tasks : StatDone(t)
  \/ \E t \in tasks : ReadDoneCM(t)
  \/ \E t \in tasks : ReadDoneVC(t)
  \/ ReleaseInterruptWatcher
  \/ ReleaseCancelPending

Spec == Init /\ [][Next]_vars

\* The vault, the watcher and the debounced updates, with reload() calls and
\* queries
NextQ ==
  \/ \E p \in Paths, k \in Kinds : DiskChange(p, k)
  \/ InitialLoad
  \/ StartWatcher
  \/ \E p \in Paths : WatchEvent(p, MaxEventsQ)
  \/ \E t \in tasks : TimerFire(t)
  \/ \E t \in tasks : ExistsDone(t)
  \/ \E t \in tasks : StatDone(t)
  \/ \E t \in tasks : ReadDoneCM(t)
  \/ \E t \in tasks : ReadDoneVC(t)
  \/ ReadBegin
  \/ ReadEnd
  \/ ReloadVS
  \/ ReloadBegin
  \/ \E p \in Paths : ReloadRead(p)
  \/ ReloadSet

SpecQ == InitQ /\ [][NextQ]_vars

\* ---------------------------------------------------------------- fairness
\* The vault, the watcher, the debounced updates and reload() calls.  A
\* timer that is set fires, and an update or a reload that has started goes
\* on to its end: the runtime schedules every fiber and every callback.
NextL ==
  \/ \E p \in Paths, k \in Kinds : DiskChange(p, k)
  \/ InitialLoad
  \/ StartWatcher
  \/ \E p \in Paths : WatchEvent(p, MaxEvents)
  \/ \E t \in tasks : TimerFire(t)
  \/ \E t \in tasks : ExistsDone(t)
  \/ \E t \in tasks : StatDone(t)
  \/ \E t \in tasks : ReadDoneCM(t)
  \/ \E t \in tasks : ReadDoneVC(t)
  \/ ReloadVS
  \/ ReloadBegin
  \/ \E p \in Paths : ReloadRead(p)
  \/ ReloadSet

SpecL ==
  /\ Init /\ [][NextL]_vars
  /\ WF_vars(\E t \in tasks : \/ TimerFire(t) \/ ExistsDone(t) \/ StatDone(t)
                              \/ ReadDoneCM(t) \/ ReadDoneVC(t))
  /\ WF_vars((\E p \in Paths : ReloadRead(p)) \/ ReloadSet)

\* ------------------------------------------------------- the event filter
\* a handler that schedules an update for every event
isMarkdownAlways(path) == TRUE

\* event.path.endsWith('.md')
isMarkdown(path) == Len(path) >= 3 /\ SubSeq(path, Len(path) - 2, Len(path)) = ".md"

\* Stream.runForEach handler of the watcher on an event for one of the
\* other paths: if (event.path.endsWith('.md')) scheduleUpdate(event.path).
\* call records the event that was handled.
OtherEvent(path) ==
  /\ phase = "up"
  /\ call' = [op |-> "event", path |-> path]
  /\ IF isMarkdown(path)
     THEN /\ tasks' = {t \in tasks : t.path # path} \cup
                        {[path |-> path, ev |-> 1, pc |-> "sleep", before |-> NoDoc]}
          /\ pending' = [q \in DOMAIN pending \cup {path} |->
                           IF q = path THEN 1 ELSE pending[q]]
     ELSE UNCHANGED <<tasks, pending>>
  /\ UNCHANGED <<hist, impl, loader, phase, disk, clock, cache, lastEv, reader,
                 rl, burst, lastApply, rg>>

\* The vault, the watcher with the events of every path, and the debounced
\* updates
NextW ==
  \/ \E p \in Paths, k \in Kinds : DiskChange(p, k)
  \/ InitialLoad
  \/ StartWatcher
  \/ \E p \in Paths : WatchEvent(p, MaxEventsQ)
  \/ \E path \in {"c.txt", "a.md.bak", "d.md~", "md"} : OtherEvent(path)
  \/ \E t \in tasks : TimerFire(t)
  \/ \E t \in tasks : ExistsDone(t)
  \/ \E t \in tasks : StatDone(t)
  \/ \E t \in tasks : ReadDoneCM(t)
  \/ \E t \in tasks : ReadDoneVC(t)

SpecW == InitQ /\ [][NextW]_vars

TypeOK ==
  /\ impl \in {"cm", "vc"}
  /\ phase \in {"init", "loaded", "up", "stopping", "down"}
  /\ clock \in 0..MaxChanges
  /\ \A t \in tasks : t.pc \in {"sleep", "exists", "stat", "read"}
  /\ reader.alias => reader.map = cache

\* ------------------------------------------------- functions on their own
\* The functions of the loader and of the service, each applied to inputs
\* drawn from bounded sets; call holds the inputs and the result of the call.
service == <<impl, loader, phase, disk, clock, cache, pending, tasks, lastEv,
             reader, rl, burst, lastApply, rg, hist>>

InitF ==
  /\ impl = "cm" /\ loader = 1 /\ phase = "init"
  /\ disk = [p \in Paths |-> [kind |-> "none", ver |-> 0]]
  /\ clock = 0 /\ cache = EmptyMap /\ pending = [p \in Paths |-> 0]
  /\ tasks = {} /\ lastEv = [p \in Paths |-> 0] /\ reader = NoReader
  /\ rl = NoReload /\ burst = [p \in Paths |-> NoBurst]
  /\ lastApply = [p \in Paths |-> NeverApplied] /\ rg = NoRow /\ hist = FALSE
  /\ call = NoCall

\* { concurrency: 10 } of the VaultCache's loadAllFiles
Concurrency == 10

\* whether Effect.forEach may start one more effect when k are running:
\* { concurrency: 'unbounded' } in both revisions of the FileLoader,
\* { concurrency: 10 } in the VaultCache
mayStart(im, k) == im = "vc" => k < Concurrency

\* loadAllFiles reaches the Effect.forEach over the n files of the walk
ForEachBegin(im, n) ==
  /\ call = NoCall /\ phase = "init"
  /\ call' = [op |-> "forEach", im |-> im, n |-> n, started |-> 0, finished |-> 0]
  /\ UNCHANGED service

\* the forEach starts the load of the next file
ForEachStart ==
  /\ call.op = "forEach"
  /\ call.started < call.n
  /\ mayStart(call.im, call.started - call.finished)
  /\ call' = [call EXCEPT !.started = @ + 1]
  /\ UNCHANGED service

\* the load of one file returns
ForEachFinish ==
  /\ call.op = "forEach"
  /\ call.finished < call.started
  /\ call' = [call EXCEPT !.finished = @ + 1]
  /\ UNCHANGED service

\* the call is over (a forEach once every load has returned)
Return ==
  /\ call # NoCall
  /\ call.op = "forEach" => call.finished = call.n
  /\ call' = NoCall
  /\ UNCHANGED service

\* A vault with subdirectories: the entries that each directory may hold, in
\* the order readDirectory lists them ("" is config.vaultPath), and which of
\* them are there (a tree gives every path its kind).
Entries(d) ==
  IF d = "" THEN <<".git", ".h.md", "a.md", "b.txt", "sub">>
  ELSE IF d = ".git" THEN <<"e.md">>
  ELSE IF d = "sub" THEN <<"c.md", "deep">>
  ELSE IF d = "sub/deep" THEN <<"d.md">>
  ELSE << >>

\* path.join(dirPath, entry)
Join(d, e) == IF d = "" THEN e ELSE d \o "/" \o e

TreeDirs == {"", ".git", "sub", "sub/deep"}
TreeNodes == {Join(d, Entries(d)[i]) : <<d, i>> \in
                {di \in TreeDirs \X (1..5) : di[2] <= Len(Entries(di[1]))}}
Trees ==
  {t \in [TreeNodes \cup {""} -> {"none", "file", "dir", "noaccess", "noreaddir"}] :
     /\ t[""] \in {"dir", "noreaddir"}
     /\ t[".git"] \in {"none", "dir", "noaccess"}
     /\ t[".git/e.md"] = "file"
     /\ t[".h.md"] \in {"none", "file", "noaccess"}
     /\ t["a.md"] \in {"none", "file", "noaccess"}
     /\ t["b.txt"] \in {"none", "file"}
     /\ t["sub"] \in {"none", "dir", "noreaddir", "noaccess"}
     /\ t["sub/c.md"] \in {"none", "file", "noaccess"}
     /\ t["sub/deep"] \in {"none", "dir", "noreaddir"}
     /\ t["sub/deep/d.md"] \in {"file", "noaccess"}}

\* fs.readDirectory(dirPath): the names of the entries that are there
readDirectory(t, d) == SelectSeq(Entries(d), LAMBDA e : t[Join(d, e)] # "none")

\* every entry counts as not hidden
hiddenNever(entry) == FALSE

\* entry.startsWith('.')
hidden(entry) == startsWith(entry, ".")

RECURSIVE Flat(_)
Flat(rs) == IF rs = << >> THEN << >> ELSE Head(rs).files \o Flat(Tail(rs))

\* walkDirectory of the FileLoader (first revision): ok is FALSE when the
\* walk of dirPath fails (readDirectory fails, or the stat of one of its
\* entries fails and with it the forEach); files are the full paths
\* returned; stats are the paths on which fs.stat was called.
RECURSIVE walkDirectory(_, _)
walkDirectory(t, dirPath) ==
  IF t[dirPath] = "noreaddir" THEN [ok |-> FALSE, files |-> << >>, stats |-> {}]
  ELSE
    LET entries == readDirectory(t, dirPath)
        one(entry) ==
          IF hidden(entry) THEN [ok |-> TRUE, files |-> << >>, stats |-> {}]
          ELSE
            LET fullPath == Join(dirPath, entry)
                stat == FsStat(t[fullPath])
            IN IF stat = "error"
               THEN [ok |-> FALSE, files |-> << >>, stats |-> {fullPath}]
               ELSE IF stat = "Directory"
               THEN LET w == walkDirectory(t, fullPath)
                    IN [ok |-> TRUE, files |-> IF w.ok THEN w.files ELSE << >>,
                        stats |-> {fullPath} \cup w.stats]
               ELSE IF stat = "File" /\ endsWith(entry, ".md")
               THEN [ok |-> TRUE, files |-> <<fullPath>>, stats |-> {fullPath}]
               ELSE [ok |-> TRUE, files |-> << >>, stats |-> {fullPath}]
        results == [i \in 1..Len(entries) |-> one(entries[i])]
        ok == \A i \in 1..Len(entries) : results[i].ok
    IN [ok |-> ok,
        files |-> IF ok THEN Flat(results) ELSE << >>,
        stats |-> UNION {results[i].stats : i \in 1..Len(entries)}]

\* walkDirectory(config.vaultPath).pipe(catchAll(... return []))
walkVault(t) ==
  LET w == walkDirectory(t, "")
  IN [files |-> IF w.ok THEN w.files ELSE << >>, stats |-> w.stats]

\* the walk of loadAllFiles on a vault with subdirectories
CallWalk(t) ==
  /\ call = NoCall /\ phase = "init"
  /\ call' = [op |-> "walk", t |-> t, out |-> walkVault(t)]
  /\ UNCHANGED service

\* the vaults given to loadAllFiles
Vaults == [Paths -> [kind : LoadKinds, ver : {1}]]

\* loadAllFiles, from the walk to the Map it returns
CallLoadAll(im, ld, dk) ==
  /\ call = NoCall /\ phase = "init"
  /\ call' = [op |-> "loadAll", im |-> im, ld |-> ld, dk |-> dk,
               out |-> LoadAll(im, ld, dk)]
  /\ UNCHANGED service

\* ------------------------------------------------ queries on their own
\* the keys a cache may hold, and the caches the VaultService is asked with:
\* up to MaxKeys entries in any insertion order, each a document with a body
\* or the '' of a failed read
MaxKeys == 3
KeySet == {"note.md", "note.MD.md", "b.md"}
VaultPath(k) == "/vault/" \o k
DocsOf(k) == {MkDoc(1, "body", VaultPath(k)), MkDoc(0, "empty", VaultPath(k))}
QCaches ==
  UNION {{c \in [1..n -> {[key |-> k, doc |-> d] : <<k, d>> \in
                            {kd \in KeySet \X UNION {DocsOf(k) : k \in KeySet} :
                               kd[2] \in DocsOf(kd[1])}}] :
            \A i, j \in 1..n : c[i].key = c[j].key => i = j} : n \in 0..MaxKeys}

\* the CacheManager has loaded the vault and the VaultService is up
CacheLoaded(c) ==
  /\ call = NoCall /\ phase = "init"
  /\ phase' = "up" /\ cache' = c
  /\ UNCHANGED <<call, impl, loader, disk, clock, pending, tasks, lastEv, reader,
                 rl, burst, lastApply, rg, hist>>

\* the filenames given to getFileContent: null (or undefined), or a string
Filenames ==
  {[null |-> TRUE, s |-> ""]} \cup
  {[null |-> FALSE, s |-> x] : x \in {"", " ", " \t ", "\n", "note", "note.md", "note.MD",
                                       " note", "note ", "b", "gone", "gone.md", ".md"}}

\* only the empty filename is refused
blankEmptyOnly(filename) == filename.null \/ filename.s = ""

\* !filename || filename.trim() === ''
blank(filename) == filename.null \/ filename.s = "" \/ trim(filename.s) = ""

\* the filename is looked up as it is
normalizeNever(name) == name

\* filename.endsWith('.md') ? filename : `${filename}.md`
normalize(name) == IF endsWith(name, ".md") THEN name ELSE name \o ".md"

\* vaultFile.content
Content(d) == [ver |-> d.ver, form |-> d.form]

getFileContent(c, filename) ==
  IF blank(filename) THEN [status |-> "BadRequest", content |-> Content(NoDoc)]
  ELSE LET normalizedFilename == normalize(filename.s)
       IN IF ~MapHas(c, normalizedFilename)
          THEN [status |-> "NotFound", content |-> Content(NoDoc)]
          ELSE [status |-> "ok", content |-> Content(MapGet(c, normalizedFilename))]

CallGetFileContent(filename) ==
  /\ call = NoCall /\ phase = "up"
  /\ call' = [op |-> "getFileContent", filename |-> filename, before |-> cache,
              out |-> getFileContent(cache, filename)]
  /\ UNCHANGED service

\* Stream.drop(offset), Stream.take(limit)
dropNone(xs, n) == xs
drop(xs, n) == IF n <= 0 THEN xs ELSE SubSeq(xs, n + 1, Len(xs))
take(xs, n) == SubSeq(xs, 1, IF n < Len(xs) THEN n ELSE Len(xs))

getFilePaths(c, limit, offset) ==
  LET allPaths == [i \in 1..Len(c) |-> c[i].key]
  IN [files |-> take(drop(allPaths, offset), limit), total |-> Len(allPaths)]

CallGetFilePaths(limit, offset) ==
  /\ call = NoCall /\ phase = "up"
  /\ call' = [op |-> "getFilePaths", limit |-> limit, offset |-> offset,
              out |-> getFilePaths(cache, limit, offset)]
  /\ UNCHANGED service

CallSearchInFiles(q) ==
  /\ call = NoCall /\ phase = "up"
  /\ call' = [op |-> "searchInFiles", query |-> q, out |-> searchInFiles(impl, cache, q)]
  /\ UNCHANGED service

\* the folder paths given to searchByFolder: null (or undefined), or a string
FolderPaths ==
  {[null |-> TRUE, s |-> ""]} \cup
  {[null |-> FALSE, s |-> x] : x \in {"", " ", "\t ", "/", "//", "note", "/note", "//note",
                                       "note.M", "note.md", "b", "/b.md", "x", " note"}}

\* the folder path is used as it is
stripNone(s) == s

\* folderPath.startsWith('/') ? folderPath.slice(1) : folderPath
stripSlash(s) == IF startsWith(s, "/") THEN SubSeq(s, 2, Len(s)) ELSE s

searchByFolder(c, folderPath) ==
  IF blank(folderPath) THEN << >>
  ELSE LET normalizedFolderPath == stripSlash(folderPath.s)
           allPaths == [i \in 1..Len(c) |-> c[i].key]
       IN SelectSeq(allPaths, LAMBDA filePath : startsWith(filePath, normalizedFolderPath))

CallSearchByFolder(folderPath) ==
  /\ call = NoCall /\ phase = "up"
  /\ call' = [op |-> "searchByFolder", folderPath |-> folderPath,
              out |-> searchByFolder(cache, folderPath)]
  /\ UNCHANGED service

\* --------------------------------------------- the search on a text
\* String.prototype.toLowerCase, letter by letter.  '#' stands for the
\* letter U+0130 (capital I with dot above), whose lower case is the two code
\* units U+0069 U+0307, written "i'" here: the one letter whose lower case
\* is longer than the letter.
UpperS == "ABCDEFGHIJKLMNOPQRSTUVWXYZ"
LowerS == "abcdefghijklmnopqrstuvwxyz"
lowerChar(ch) ==
  IF ch = "#" THEN "i'"
  ELSE IF \E i \in 1..Len(UpperS) : SubSeq(UpperS, i, i) = ch
  THEN LET i == CHOOSE i \in 1..Len(UpperS) : SubSeq(UpperS, i, i) = ch
       IN SubSeq(LowerS, i, i)
  ELSE ch
RECURSIVE toLowerCase(_)
toLowerCase(s) ==
  IF Len(s) = 0 THEN ""
  ELSE IF Len(s) = 1 THEN lowerChar(s)
  ELSE toLowerCase(SubSeq(s, 1, Len(s) \div 2)) \o
       toLowerCase(SubSeq(s, Len(s) \div 2 + 1, Len(s)))

\* String.prototype.indexOf (-1 when there is no occurrence), includes, slice
indexOf(s, sub) ==
  LET at == {i \in 0..(Len(s) - Len(sub)) : SubSeq(s, i + 1, i + Len(sub)) = sub}
  IN IF at = {} THEN -1 ELSE CHOOSE i \in at : \A j \in at : i <= j
includes(s, sub) == indexOf(s, sub) >= 0
slice(s, start, end) ==
  LET e == IF end > Len(s) THEN Len(s) ELSE end
  IN IF start >= e THEN "" ELSE SubSeq(s, start + 1, e)

\* content.split('\n')
RECURSIVE split(_)
split(s) ==
  LET i == indexOf(s, "\n")
  IN IF i < 0 THEN <<s>> ELSE <<slice(s, 0, i)>> \o split(slice(s, i + 1, Len(s)))

\* the characters of context kept before and after the match
ContextChars == 100

getContextBounds(matchIndex, queryLength, lineLength) ==
  [start |-> IF matchIndex - ContextChars > 0 THEN matchIndex - ContextChars ELSE 0,
   end |-> IF lineLength < matchIndex + queryLength + ContextChars
           THEN lineLength ELSE matchIndex + queryLength + ContextChars]

\* the line is searched as it is written
lowerLineAsIs(line) == line

\* line.toLowerCase()
lowerLine(line) == toLowerCase(line)

\* processLine: null (hit FALSE) or the result of the line
NoResult == [hit |-> FALSE, filePath |-> "", lineNumber |-> 0, context |-> ""]
processLine(filePath, lowerQuery, queryLength, lineNumber, line) ==
  IF line = "" THEN NoResult
  ELSE IF ~includes(lowerLine(line), lowerQuery) THEN NoResult
  ELSE LET matchIndex == indexOf(lowerLine(line), lowerQuery)
           b == getContextBounds(matchIndex, queryLength, Len(line))
       IN [hit |-> TRUE, filePath |-> filePath, lineNumber |-> lineNumber,
           context |-> slice(line, b.start, b.end)]

\* the query is searched whatever it is made of
rejectedNever(query) == FALSE

\* query.length > 1 && query.trim() === ''
rejected(query) == Len(query) > 1 /\ trim(query) = ""

\* searchInContent on the text of a document
searchInContentText(vaultFile, query) ==
  IF rejected(query) THEN << >>
  ELSE LET lines == split(vaultFile.content)
           lowerQuery == toLowerCase(query)
           all == [i \in 1..Len(lines) |->
                     processLine(vaultFile.path, lowerQuery, Len(query), i, lines[i])]
       IN SelectSeq(all, LAMBDA r : r.hit)

\* the texts searched: documents of up to MaxLines short lines, and single
\* long lines with the match after Before and before After other characters
MaxLines == 3
ShortLines == {"", "query", "no match", "QUERY query", "a  b"}
RECURSIVE Rep(_, _)
Rep(ch, n) == IF n <= 0 THEN "" ELSE ch \o Rep(ch, n - 1)
RECURSIVE join(_)
join(ls) == IF Len(ls) = 1 THEN ls[1] ELSE ls[1] \o "\n" \o join(Tail(ls))
Before == {0, 1, ContextChars - 1, ContextChars, ContextChars + 1, ContextChars + 50}
After == {0, ContextChars - 1, ContextChars, ContextChars + 50}
LongLines ==
  {pre \o "Query" \o Rep("b", j) :
     pre \in UNION {{Rep("a", k), Rep("#", k), Rep("#", 1) \o Rep("a", k - 1)} : k \in Before},
     j \in After}
Texts ==
  {join(ls) : ls \in UNION {[1..n -> ShortLines] : n \in 1..MaxLines}} \cup LongLines
TextQueries == {"", " ", "  ", "query", "QUERY", "uer", "zz"}

CallSearchInContent(content, query) ==
  /\ call = NoCall /\ phase = "init"
  /\ call' = [op |-> "searchInContent", content |-> content, query |-> query,
              out |-> searchInContentText([path |-> "/vault/note.md", content |-> content],
                                          query)]
  /\ UNCHANGED service

\* ------------------------------------------------------------ metrics
\* the caches given to getMetrics: up to MaxKeys files, each with its bytes
\* (0..MaxBytes) and lines (0..MaxFileLines), under keys in a fixed order
MaxBytes == 3
MaxFileLines == 2
MetricKeys == <<"note.md", "note.MD.md", "b.md">>
MCaches ==
  UNION {{[i \in 1..n |-> [key |-> MetricKeys[i], bytes |-> f[i][1], lines |-> f[i][2]]] :
            f \in [1..n -> (0..MaxBytes) \X (0..MaxFileLines)]} :
         n \in 0..(IF MaxKeys < Len(MetricKeys) THEN MaxKeys ELSE Len(MetricKeys))}

\* Number.MAX_SAFE_INTEGER of the first revision, Number.POSITIVE_INFINITY of
\* the second: above the bytes of every file (the largest integer here)
Unbounded == 2147483647

\* Math.round of a / b, for a >= 0 and b > 0
roundDown(a, b) == a \div b
round(a, b) == (2 * a + b) \div (2 * b)

\* the sentinel is never put in
orNoneNever(x) == x

\* largest.path ? largest : { path: 'none', bytes: 0 }
orNone(x) == IF x.path # "" THEN x ELSE [path |-> "none", bytes |-> 0]

\* the loop over files.entries()
RECURSIVE metricsLoop(_, _)
metricsLoop(files, acc) ==
  IF files = << >> THEN acc
  ELSE LET f == Head(files)
       IN metricsLoop(Tail(files),
            [totalBytes |-> acc.totalBytes + f.bytes,
             totalLines |-> acc.totalLines + f.lines,
             largest |-> IF f.bytes > acc.largest.bytes
                         THEN [path |-> f.key, bytes |-> f.bytes] ELSE acc.largest,
             smallest |-> IF f.bytes < acc.smallest.bytes
                          THEN [path |-> f.key, bytes |-> f.bytes] ELSE acc.smallest])

\* getMetrics of the first (rev 1) and of the second (rev 2) VaultService
getMetrics(rev, files) ==
  LET m == metricsLoop(files, [totalBytes |-> 0, totalLines |-> 0,
                               largest |-> [path |-> "", bytes |-> 0],
                               smallest |-> [path |-> "", bytes |-> Unbounded]])
  IN IF rev = 1
     THEN [totalFiles |-> Len(files), totalBytes |-> m.totalBytes,
           totalLines |-> m.totalLines,
           averageFileSize |-> IF Len(files) > 0 THEN round(m.totalBytes, Len(files)) ELSE 0,
           largestFile |-> orNone(m.largest), smallestFile |-> orNone(m.smallest)]
     ELSE IF Len(files) = 0
     THEN [totalFiles |-> 0, totalBytes |-> 0, totalLines |-> 0, averageFileSize |-> 0,
           largestFile |-> [path |-> "none", bytes |-> 0],
           smallestFile |-> [path |-> "none", bytes |-> 0]]
     ELSE [totalFiles |-> Len(files), totalBytes |-> m.totalBytes,
           totalLines |-> m.totalLines,
           averageFileSize |-> round(m.totalBytes, Len(files)),
           largestFile |-> m.largest, smallestFile |-> m.smallest]

CallGetMetrics(rev, files) ==
  /\ call = NoCall /\ phase = "init"
  /\ call' = [op |-> "getMetrics", rev |-> rev, files |-> files,
              out |-> getMetrics(rev, files)]
  /\ UNCHANGED service

\* ------------------------------------------------- the load of a text
\* the value strings of a metadata line for which YAML.load gives a value
\* outside the Frontmatter schema (string, number, boolean, array of
\* strings): undefined, null, a Date, an object, an array of numbers
Undecodable == {"", "null", "2024-01-01", "{a: 1}", "[1, 2]"}

\* the lines of the metadata block that give an entry: [key, valueStr]
entryOf(line) ==
  LET trimmedLine == trim(line)
      colonIndex == indexOf(trimmedLine, ":")
  IN IF trimmedLine = "" \/ startsWith(trimmedLine, "#") \/ colonIndex = -1
     THEN [entry |-> FALSE, key |-> "", valueStr |-> ""]
     ELSE [entry |-> TRUE, key |-> trim(slice(trimmedLine, 0, colonIndex)),
           valueStr |-> trim(slice(trimmedLine, colonIndex + 1, Len(trimmedLine)))]

\* content.match(frontmatterRegex), for delimiter lines without trailing
\* white space: the block between '---\n' and the first '\n---\n', and the
\* text after it
matchFrontmatter(content) ==
  LET rest == slice(content, 4, Len(content))
      i == indexOf(rest, "\n---\n")
  IN IF startsWith(content, "---\n") /\ i >= 0
     THEN [match |-> TRUE, frontmatterStr |-> slice(rest, 0, i),
           mainContent |-> slice(rest, i + 5, Len(rest))]
     ELSE [match |-> FALSE, frontmatterStr |-> "", mainContent |-> ""]

\* parseFrontmatter: ok FALSE is the ParseError of Schema.decodeUnknown;
\* frontmatter is the set of the keys decoded
parseFrontmatter(content) ==
  LET m == matchFrontmatter(content)
      lines == split(m.frontmatterStr)
      es == {entryOf(lines[i]) : i \in 1..Len(lines)}
  IN IF ~m.match THEN [ok |-> TRUE, frontmatter |-> {}, content |-> content]
     ELSE IF m.frontmatterStr = "" THEN [ok |-> TRUE, frontmatter |-> {}, content |-> m.mainContent]
     ELSE IF \E e \in es : e.entry /\ e.valueStr \in Undecodable
     THEN [ok |-> FALSE, frontmatter |-> {}, content |-> ""]
     ELSE [ok |-> TRUE, frontmatter |-> {e.key : e \in {x \in es : x.entry}},
           content |-> m.mainContent]

\* new TextEncoder().encode(s).length: one byte for a character of ASCII,
\* two for U+0130 (written '#')
RECURSIVE utf8Length(_)
utf8Length(s) ==
  IF s = "" THEN 0
  ELSE (IF SubSeq(s, 1, 1) = "#" THEN 2 ELSE 1) + utf8Length(SubSeq(s, 2, Len(s)))

\* the result of parseFrontmatter as loadFile takes it: the first revision
\* falls back to { frontmatter: {}, content }, the second passes the error on
parsedOrFallback(ld, content) ==
  LET parsed == parseFrontmatter(content)
  IN IF parsed.ok \/ ld = 2 THEN parsed
     ELSE [ok |-> TRUE, frontmatter |-> {}, content |-> content]

\* loadFile on a file whose text is content (readOk FALSE: readFileString fails)
NoFile == [ok |-> FALSE, content |-> "", frontmatter |-> {}, bytes |-> 0, lines |-> 0]
loadFileText(ld, readOk, content) ==
  IF ~readOk THEN NoFile
  ELSE LET parsed == parsedOrFallback(ld, content)
       IN IF ~parsed.ok THEN NoFile
          ELSE [ok |-> TRUE, content |-> parsed.content, frontmatter |-> parsed.frontmatter,
                bytes |-> utf8Length(parsed.content), lines |-> Len(split(parsed.content))]

\* what loadAllFiles puts into the cache for the file: the first revision
\* the loaded file or the entry with content '', bytes 0 and lines 0, the
\* second the loaded file or nothing (ok FALSE)
loadEntry(ld, readOk, content) ==
  LET lf == loadFileText(ld, readOk, content)
  IN IF lf.ok \/ ld = 2 THEN lf ELSE [NoFile EXCEPT !.ok = TRUE]

\* the texts loaded: a metadata block (decodable or not) before a body, and
\* texts without a block
BadBlocks == {"date: 2024-01-01", "title: Test\nempty:", "nested: {a: 1}"}
Plain == {"", "Plain", "A\nB", "---\ntitle: Test\ncontent without closing", "---\n\n---\nBody"}
WithBlock(fm, body) == "---\n" \o fm \o "\n---\n" \o body

CallLoadFile(ld, readOk, fm, content) ==
  /\ call = NoCall /\ phase = "init"
  /\ call' = [op |-> "loadFile", ld |-> ld, readOk |-> readOk, fm |-> fm,
              content |-> content, lf |-> loadFileText(ld, readOk, content),
              entry |-> loadEntry(ld, readOk, content)]
  /\ UNCHANGED service

\* ------------------------------------------------ point lookup and listing
\* Option.fromNullable(cache.get(relativePath)).pipe(Option.map(f => f.content))
getFile(c, relativePath) ==
  IF MapHas(c, relativePath)
  THEN [some |-> TRUE, content |-> Content(MapGet(c, relativePath))]
  ELSE [some |-> FALSE, content |-> Content(NoDoc)]

CallGetFile(relativePath) ==
  /\ call = NoCall /\ phase = "up"
  /\ call' = [op |-> "getFile", relativePath |-> relativePath,
              out |-> getFile(cache, relativePath)]
  /\ UNCHANGED service

\* a listing that hands out the Map object the Ref holds
stringMapShared(c) == [alias |-> TRUE, map |-> c]

\* const stringMap = new Map<string, string>(); ...; return stringMap (the
\* VaultCache: return new Map(cache)).  alias: the Map object returned is
\* the one the Ref holds.
stringMap(c) == [alias |-> FALSE, map |-> getAllFiles(c)]

CallGetAllFiles ==
  /\ call = NoCall /\ phase = "up"
  /\ call' = [op |-> "getAllFiles", out |-> stringMap(cache), modified |-> FALSE]
  /\ UNCHANGED service

\* the caller changes the Map it was given (set, delete or clear); a Map
\* object that the Ref holds as well changes for the Ref too
ModifyReturned(how, k) ==
  /\ call.op = "getAllFiles" /\ ~call.modified
  /\ LET m == call.out.map
         e == [key |-> k, content |-> [ver |-> 9, form |-> "body"]]
         changed == IF how = "set"
                    THEN IF \E i \in 1..Len(m) : m[i].key = k
                         THEN [i \in 1..Len(m) |-> IF m[i].key = k THEN e ELSE m[i]]
                         ELSE Append(m, e)
                    ELSE IF how = "delete" THEN SelectSeq(m, LAMBDA x : x.key # k)
                    ELSE << >>
     IN /\ call' = [call EXCEPT !.out.map = changed, !.modified = TRUE]
        /\ cache' = IF call.out.alias THEN changed ELSE cache
  /\ UNCHANGED <<impl, loader, phase, disk, clock, pending, tasks, lastEv,
                 reader, rl, burst, lastApply, rg, hist>>

NextF ==
  \/ \E im \in {"cm", "vc"}, n \in 0..MaxFiles : ForEachBegin(im, n)
  \/ ForEachStart
  \/ ForEachFinish
  \/ \E ld \in {1, 2}, dk \in Vaults : CallLoadAll("cm", ld, dk)
  \/ \E dk \in Vaults : CallLoadAll("vc", 0, dk)
  \/ \E t \in Trees : CallWalk(t)
  \/ Return
  \/ \E c \in QCaches : CacheLoaded(c)
  \/ \E filename \in Filenames : CallGetFileContent(filename)
  \/ \E limit, offset \in 0..(MaxKeys + 1) : CallGetFilePaths(limit, offset)
  \/ \E q \in Queries : CallSearchInFiles(q)
  \/ \E folderPath \in FolderPaths : CallSearchByFolder(folderPath)
  \/ \E relativePath \in KeySet \cup {"note", "gone.md"} : CallGetFile(relativePath)
  \/ CallGetAllFiles
  \/ \E how \in {"set", "delete", "clear"}, k \in KeySet : ModifyReturned(how, k)
  \/ \E content \in Texts, query \in TextQueries : CallSearchInContent(content, query)
  \/ \E rev \in {1, 2}, files \in MCaches : CallGetMetrics(rev, files)
  \/ \E ld \in {1, 2}, readOk \in BOOLEAN :
       \/ \E fm \in {"title: Test", "title: Test\ntags: [a, b]", "# comment\ncount: 3",
                     "no colon"} \cup BadBlocks,
               body \in {"", "Body", "Line 1\nLine 2\n", "#"} :
            CallLoadFile(ld, readOk, fm, WithBlock(fm, body))
       \/ \E content \in Plain : CallLoadFile(ld, readOk, "", content)

SpecF == InitF /\ [][NextF]_vars

\* ----------------------------------------------------------- properties
\* an update of path p that ends in this step, and the task that ends
Ends(t) == t \in tasks /\ t \notin tasks' /\ lastApply'[t.path] # lastApply[t.path]
            /\ lastApply'[t.path].ev = t.ev
Idle(p) == \A t \in tasks : t.path # p

\* C1: debounce coalescing.  For every path there is at most one armed
\* timer, it belongs to the latest event of the path, the events of one
\* burst lead to exactly one firing (one once no timer is armed, none
\* before), and a document stored by the update of the latest event was
\* read from the file as it was at or after that event.
C1_DebounceCoalescing ==
  \A p \in Paths :
    /\ Cardinality(Sleeping(p)) <= 1
    /\ \A t \in Sleeping(p) : t.ev = lastEv[p] /\ burst[p].fires = 0
    /\ burst[p].fires <= 1
    /\ (phase = "up" /\ burst[p].n >= 1 /\ Sleeping(p) = {}) => burst[p].fires = 1
    /\ (lastApply[p].ev = lastEv[p] /\ lastApply[p].obs = "file"
          /\ lastApply[p].doc.form # "empty")
         => lastApply[p].doc.ver >= burst[p].ver0

\* a burst of two or more events fired once and its update stored the file
C1_Witness ==
  \E p \in Paths :
    /\ burst[p].n >= 2 /\ burst[p].fires = 1
    /\ lastApply[p].ev = lastEv[p] /\ lastApply[p].obs = "file"
    /\ disk[p].ver >= 1 /\ lastApply[p].doc.ver = disk[p].ver

\* C2: cache / disk consistency.  When no update of a path is pending or
\* running, the path is in the cache if and only if it was an eligible
\* (regular '.md') file at its last fully applied update.
C2_CacheMatchesDisk ==
  \A p \in Paths :
    (impl = "cm" /\ Idle(p) /\ lastApply[p].full # "never")
      => (MapHas(cache, p) <=> lastApply[p].full = "yes")

\* C3: shutdown safety.  Once the release of the scope has completed the
\* cache is not written any more; the release completes (pending timers
\* cancelled) only after the watcher has been stopped, and once the watcher
\* is stopped no event is handled and no timer is armed.
C3_NoWriteAfterRelease ==
  [][/\ phase = "down" => cache' = cache
     /\ (phase' = "down" /\ phase # "down") => phase = "stopping"
     /\ phase \in {"stopping", "down"} =>
           lastEv' = lastEv /\ Sleeping(PathSeq[1])' \subseteq Sleeping(PathSeq[1])
                            /\ Sleeping(PathSeq[2])' \subseteq Sleeping(PathSeq[2])
    ]_vars

\* C4: deletion.  When a cached file has been removed from disk, the event
\* for it was handled after the removal and the update of that event has
\* run, the path is neither in the cache nor in what getAllFiles and
\* searchInFiles return.
C4_DeletedPathAbsent ==
  \A p \in Paths :
    (/\ impl = "cm"
     /\ disk[p].kind = "none"
     /\ burst[p].n >= 1 /\ burst[p].ver0 = disk[p].ver
     /\ lastApply[p].ev = lastEv[p])
    => /\ ~MapHas(cache, p)
       /\ \A i \in 1..Len(getAllFiles(cache)) : getAllFiles(cache)[i].key # p
       /\ \A q \in Queries : \A i \in 1..Len(searchInFiles(impl, cache, q)) :
            searchInFiles(impl, cache, q)[i].filePath \notin {p, AbsPath(p)}

\* a file that was loaded at start-up has been removed and its removal applied
C4_Witness ==
  \E p \in Paths :
    /\ impl = "cm"
    /\ disk[p].kind = "none" /\ disk[p].ver = 1 /\ clock = 1
    /\ burst[p].n >= 1 /\ burst[p].ver0 = disk[p].ver
    /\ lastApply[p].ev = lastEv[p] /\ lastApply[p].obs = "missing"
    /\ ~MapHas(cache, p)

\* C5: disjoint keys.  The update of one path leaves the entry (or the
\* absence) of every other path as it was, and what the last finished
\* update of each path stored or deleted is what the cache holds for it.
C5_DisjointKeys ==
  [][/\ \A t \in tasks : Ends(t) =>
          \A q \in Paths \ {t.path} :
            MapHas(cache', q) = MapHas(cache, q) /\ MapGet(cache', q) = MapGet(cache, q)
     /\ \A p \in Paths :
          /\ (impl = "cm" /\ lastApply'[p].obs = "file")
               => MapGet(cache', p) = lastApply'[p].doc
          /\ (impl = "cm" /\ lastApply'[p].obs = "missing") => ~MapHas(cache', p)
    ]_vars

\* the updates of two paths have both been applied and both results are cached
C5_Witness ==
  /\ \A p \in Paths : lastApply[p].obs = "file" /\ MapGet(cache, p) = lastApply[p].doc
  /\ impl = "cm" /\ tasks = {}

\* C6: per-path ordering.  The event whose update last wrote the entry of a
\* path never goes back to an earlier event of that path.
C6_AppliedInEventOrder ==
  [][\A p \in Paths : lastApply'[p].wev >= lastApply[p].wev]_vars

\* C7: a failed update is harmless.  When an update of the CacheManager
\* fails (exists, stat, read or parse), the cache is what it was, the entry
\* of the path is what it was when the update started, the path has no
\* record and no fiber left, and the service keeps running.
C7_FailedApplyHarmless ==
  [][\A t \in tasks :
       (impl = "cm" /\ Ends(t) /\ lastApply'[t.path].obs = "error")
         => /\ cache' = cache
            /\ MapGet(cache', t.path) = t.before
            /\ pending'[t.path] = 0
            /\ \A u \in tasks' : u.path # t.path
            /\ phase' = phase]_vars

\* the update of a file whose metadata block no longer decodes has failed
\* and the entry loaded at start-up is still in the cache
C7_Witness ==
  \E p \in Paths :
    /\ impl = "cm" /\ loader = 2 /\ disk[p].kind = "badfm"
    /\ lastApply[p].obs = "error" /\ lastApply[p].ev = lastEv[p]
    /\ MapHas(cache, p) /\ MapGet(cache, p).ver < disk[p].ver
    /\ Idle(p) /\ pending[p] = 0 /\ phase = "up"

\* C8: snapshot atomicity.  The Map a query has obtained from the Ref keeps
\* the entries it had when the query obtained it, whatever is written to the
\* cache meanwhile; and the object is the Ref's own only while they agree.
C8_SnapshotStable ==
  /\ reader.held => reader.map = reader.snap
  /\ reader.alias => reader.held /\ reader.map = cache

\* a query holds a snapshot that the cache has moved away from
C8_Witness == reader.held /\ ~reader.alias /\ reader.snap # cache

\* C9: reload.  After a reload() that nothing interfered with, the cache is
\* what a full load of the vault as it is on disk gives.
C9_ReloadLoadsDisk == rg.row >= 1 => cache = LoadAll(impl, loader, disk)

ReloadStep == rl'.pc # rl.pc \/ rl'.done # rl.done \/ rg'.row > rg.row

\* C11: reload() leaves the debounce machinery alone.  No step of a reload
\* changes the set of fibers / timers (none cancelled, none interrupted,
\* every armed timer still armed and so still able to fire) or the map of
\* pending updates.
C11_ReloadKeepsUpdates ==
  [][ReloadStep => (tasks' = tasks /\ pending' = pending)]_vars

\* a reload() has completed while a timer was armed, and the timer is still
\* armed and recorded
C11_Witness ==
  /\ rg.row >= 1
  /\ \E t \in tasks : t.pc = "sleep" /\ pending[t.path] = t.ev

\* C12: start-up ordering.  Before the initial load is installed there is
\* no watcher, no handled event, no update and no query; and as long as
\* nothing has changed on disk and no event has been handled, what a running
\* service holds, and what a query has obtained, is the full load of the
\* vault.
C12_LoadBeforeWatchAndQueries ==
  /\ phase = "init" => (~reader.held /\ Handled = 0 /\ tasks = {} /\ cache = EmptyMap)
  /\ phase = "loaded" => (~reader.held /\ Handled = 0 /\ tasks = {})
  /\ (phase # "init" /\ clock = 0 /\ Handled = 0)
       => /\ cache = LoadAll(impl, loader, disk)
          /\ reader.held => reader.map = LoadAll(impl, loader, disk)

\* a query holds the result of the initial load of a vault that is not empty
C12_Witness ==
  /\ reader.held /\ reader.map # EmptyMap /\ phase = "up"
  /\ clock = 0 /\ Handled = 0 /\ reader.map = LoadAll(impl, loader, disk)

\* C13: bounded load fan-out.  While loadAllFiles loads the files of the
\* walk, the number of loads running at the same time never exceeds the
\* fixed fan-out, however many files the walk found.
C13_BoundedFanOut ==
  call.op = "forEach" => call.started - call.finished <= Concurrency

\* C14: a load failure keeps the path.  Every file the walk discovered is a
\* key of the Map that the FileLoader's loadAllFiles returns; a file whose
\* read or load fails has an entry with empty content (and zero metrics),
\* and every other file has the document that loadFile gives for it.
C14_LoadFailureKeepsPath ==
  (call.op = "loadAll" /\ call.im = "cm") =>
    \A i \in 1..Len(WalkFiles(call.dk)) :
      LET p == WalkFiles(call.dk)[i]
          lf == loadFile(call.ld, AbsPath(p), call.dk[p])
      IN /\ MapHas(call.out, p)
         /\ MapGet(call.out, p) =
              IF lf.ok THEN lf.doc ELSE MkDoc(0, "empty", AbsPath(p))

\* the directory that lists a path, and the name under which it lists it
Parent(n) == CHOOSE d \in TreeDirs : \E i \in 1..Len(Entries(d)) : Join(d, Entries(d)[i]) = n
BaseName(n) == CHOOSE e \in {Entries(Parent(n))[i] : i \in 1..Len(Entries(Parent(n)))} :
                 Join(Parent(n), e) = n

\* a path one of whose names (its own or a directory's above it) starts with '.'
RECURSIVE DotPath(_)
DotPath(n) == n # "" /\ (startsWith(BaseName(n), ".") \/ DotPath(Parent(n)))

\* every directory from the root down to the path is a readable directory
RECURSIVE Reachable(_, _)
Reachable(t, n) == n = "" \/ (t[Parent(n)] = "dir" /\ Reachable(t, Parent(n)))

\* the files the walk is to return, and the entries it has to look at
Eligible(t) ==
  {n \in TreeNodes : t[n] = "file" /\ endsWith(n, ".md") /\ ~DotPath(n)
                     /\ t[""] = "dir" /\ Reachable(t, n)}
Visited(t) ==
  {n \in TreeNodes : t[n] # "none" /\ ~DotPath(n) /\ t[""] = "dir" /\ Reachable(t, n)}
NoFailure(t) ==
  t[""] = "dir" /\ \A n \in Visited(t) : t[n] \notin {"noaccess", "noreaddir"}
Returned == {call.out.files[i] : i \in 1..Len(call.out.files)}

\* C15: walk error isolation.  When a readDirectory or a stat fails
\* somewhere in the vault, the walk still returns every eligible file that is
\* not below the failing entry: the files next to it and in other
\* directories, the root's own files included.
C15_WalkErrorIsolated ==
  (call.op = "walk" /\ ~NoFailure(call.t)) => Returned = Eligible(call.t)

\* C16: walk eligibility.  The walk returns only regular files whose name
\* ends with '.md' and that are reached through directories with no name
\* starting with '.', it calls stat on no entry whose name starts with '.',
\* and when nothing fails it returns exactly those files, each once.
C16_WalkEligibility ==
  call.op = "walk" =>
    /\ Returned \subseteq Eligible(call.t)
    /\ \A n \in call.out.stats : ~DotPath(n)
    /\ NoFailure(call.t) =>
         /\ Returned = Eligible(call.t)
         /\ Len(call.out.files) = Cardinality(Returned)

\* a vault with hidden entries (one of them not even stat-able), a file of
\* another extension and nested directories, walked without failure
C16_Witness ==
  /\ call.op = "walk" /\ NoFailure(call.t)
  /\ call.t[".git"] = "noaccess" /\ call.t[".h.md"] = "file" /\ call.t["b.txt"] = "file"
  /\ Returned = {"a.md", "sub/c.md", "sub/deep/d.md"}

\* a string of white space only, written without trim
RECURSIVE AllWhite(_)
AllWhite(s) == s = "" \/ (SubSeq(s, 1, 1) \in WhiteSpace /\ AllWhite(SubSeq(s, 2, Len(s))))

C18_ExtensionNormalized ==
  (call.op = "getFileContent" /\ ~call.filename.null /\ ~AllWhite(call.filename.s)
   /\ ~endsWith(call.filename.s, ".md")) =>
    call.out = getFileContent(cache, [null |-> FALSE, s |-> call.filename.s \o ".md"])

\* 'note' finds the content stored under 'note.md'
C18_Witness ==
  /\ call.op = "getFileContent" /\ call.filename = [null |-> FALSE, s |-> "note"]
  /\ MapHas(cache, "note.md") /\ call.out.status = "ok" /\ call.out.content.form = "body"

\* C19: pagination.  getFilePaths(limit, offset) returns as total the number
\* of cached paths and as files the keys of the cache, in its order, at the
\* positions offset (counted from 0) up to offset + limit, as far as there
\* are keys: none when offset >= total or limit = 0.
C19_Pagination ==
  call.op = "getFilePaths" =>
    LET rest == IF call.offset >= Len(cache) THEN 0 ELSE Len(cache) - call.offset
        n == IF call.limit < rest THEN call.limit ELSE rest
    IN /\ call.out.total = Len(cache)
       /\ Len(call.out.files) = n
       /\ \A i \in 1..n : call.out.files[i] = cache[call.offset + i].key

\* a page that starts inside the cache and is cut short by its end
C19_Witness ==
  /\ call.op = "getFilePaths" /\ Len(cache) = 3 /\ call.offset = 1 /\ call.limit = 3
  /\ call.out.files = <<cache[2].key, cache[3].key>> /\ call.out.total = 3

RECURSIVE Concat(_)
Concat(ss) == IF ss = << >> THEN << >> ELSE Head(ss) \o Concat(Tail(ss))

\* C20: searchInFiles.  An empty query or one of white space only has the
\* empty result; any other query has the results of searchInContent for each
\* cached document, one document after the other in the order of the cache,
\* nothing dropped, added or reordered.
C20_SearchInFiles ==
  call.op = "searchInFiles" =>
    call.out = IF AllWhite(call.query) THEN << >>
               ELSE Concat([i \in 1..Len(cache) |->
                              searchInContent(cache[i].doc.path, cache[i].doc, call.query)])

\* three documents, the second with the '' of a failed read: the results are
\* those of the first and of the third, in that order
C20_Witness ==
  /\ call.op = "searchInFiles" /\ call.query = "x" /\ Len(cache) = 3
  /\ Len(call.out) = 2
  /\ call.out[1].filePath = cache[1].doc.path /\ call.out[2].filePath = cache[3].doc.path

\* the keys of a cache that start with p, in the order of the cache
RECURSIVE KeysWith(_, _)
KeysWith(c, p) ==
  IF c = << >> THEN << >>
  ELSE (IF Len(c[1].key) >= Len(p) /\ SubSeq(c[1].key, 1, Len(p)) = p
        THEN <<c[1].key>> ELSE << >>) \o KeysWith(Tail(c), p)

\* C21: searchByFolder.  A prefix that is null, empty or white space only has
\* the empty result; any other prefix, with at most one leading '/' removed,
\* has exactly the cached paths that start with it, in the order of the cache.
C21_SearchByFolder ==
  call.op = "searchByFolder" =>
    LET f == call.folderPath
        p == IF Len(f.s) >= 1 /\ SubSeq(f.s, 1, 1) = "/" THEN SubSeq(f.s, 2, Len(f.s)) ELSE f.s
    IN call.out = IF f.null \/ AllWhite(f.s) THEN << >> ELSE KeysWith(cache, p)

\* '/note' finds the two paths that start with 'note' and not the third
C21_Witness ==
  /\ call.op = "searchByFolder" /\ call.folderPath = [null |-> FALSE, s |-> "/note"]
  /\ Len(cache) = 3 /\ cache[2].key = "b.md"
  /\ call.out = <<cache[1].key, cache[3].key>>

\* the lines of the text searched, and equality of two strings up to case
CallLines == split(call.content)
CaseEq(a, b) == toLowerCase(a) = toLowerCase(b)

\* the offsets in a line at which the query occurs, case left aside
Occurrences(line, q) ==
  {i \in 0..(Len(line) - Len(q)) : CaseEq(SubSeq(line, i + 1, i + Len(q)), q)}

\* C22: context window bound.  The context of every result is the part of
\* its line from max(0, m - 100) to min(length of the line, m + |query| + 100),
\* m being the offset of the first occurrence of the query in the line, case
\* left aside; so it contains the matched text, is at most |query| + 200 long
\* and is the whole line when the line is short enough.
C22_ContextWindow ==
  call.op = "searchInContent" =>
    \A r \in 1..Len(call.out) :
      LET line == CallLines[call.out[r].lineNumber]
          q == call.query
          occ == Occurrences(line, q)
          m == CHOOSE i \in occ : \A j \in occ : i <= j
          from == IF m > 100 THEN m - 100 ELSE 0
          to == IF Len(line) < m + Len(q) + 100 THEN Len(line) ELSE m + Len(q) + 100
          context == call.out[r].context
      IN /\ occ # {}
         /\ context = SubSeq(line, from + 1, to)
         /\ \E i \in 0..(Len(context) - Len(q)) : CaseEq(SubSeq(context, i + 1, i + Len(q)), q)
         /\ Len(context) <= Len(q) + 200
         /\ (m <= 100 /\ Len(line) <= m + Len(q) + 100) => context = line

\* C23: one result per line.  searchInContent returns at most one result for
\* a line, none for an empty line, the results carry line numbers counted
\* from 1 in strictly increasing order, and a line that is not empty and
\* contains the query, case left aside, has exactly one result.
C23_OneResultPerLine ==
  call.op = "searchInContent" =>
    /\ \A r \in 1..Len(call.out) :
         /\ call.out[r].lineNumber \in 1..Len(CallLines)
         /\ CallLines[call.out[r].lineNumber] # ""
         /\ r > 1 => call.out[r - 1].lineNumber < call.out[r].lineNumber
    /\ \A i \in 1..Len(CallLines) :
         (CallLines[i] # "" /\ includes(toLowerCase(CallLines[i]), toLowerCase(call.query)))
           => Cardinality({r \in 1..Len(call.out) : call.out[r].lineNumber = i}) = 1

C25_WhitespaceQuerySearched ==
  (call.op = "searchInContent" /\ call.query # "" /\ AllWhite(call.query)) =>
    \A i \in 1..Len(CallLines) :
      (CallLines[i] # "" /\ includes(CallLines[i], call.query))
        => \E r \in 1..Len(call.out) : call.out[r].lineNumber = i

\* sums over the files given to getMetrics
RECURSIVE SumBytes(_)
SumBytes(fs) == IF fs = << >> THEN 0 ELSE Head(fs).bytes + SumBytes(Tail(fs))
RECURSIVE SumLines(_)
SumLines(fs) == IF fs = << >> THEN 0 ELSE Head(fs).lines + SumLines(Tail(fs))

\* C26: metrics totals.  getMetrics returns the number of entries, the sum
\* of their bytes, the sum of their lines, and as averageFileSize the integer
\* nearest to totalBytes / totalFiles (the upper one of two equally near), 0
\* for the empty cache.
C26_MetricsTotals ==
  call.op = "getMetrics" =>
    LET n == Len(call.files)
        a == call.out.averageFileSize
    IN /\ call.out.totalFiles = n
       /\ call.out.totalBytes = SumBytes(call.files)
       /\ call.out.totalLines = SumLines(call.files)
       /\ n = 0 => a = 0
       /\ n > 0 => /\ 2 * n * a - n <= 2 * SumBytes(call.files)
                   /\ 2 * SumBytes(call.files) < 2 * n * a + n

\* three files of 5 bytes in all: the average 5/3 is reported as 2
C26_Witness ==
  /\ call.op = "getMetrics" /\ Len(call.files) = 3 /\ call.out.totalBytes = 5
  /\ call.out.totalLines = 4 /\ call.out.averageFileSize = 2

\* C27: metrics extremes and ties.  largestFile is the first entry, in the
\* order of the cache, whose bytes are the maximum over the cache, and
\* smallestFile the first whose bytes are the minimum.
C27_MetricsExtremes ==
  (call.op = "getMetrics" /\ call.files # << >>) =>
    LET fs == call.files
        top == CHOOSE i \in 1..Len(fs) :
                 /\ \A j \in 1..Len(fs) : fs[j].bytes <= fs[i].bytes
                 /\ \A j \in 1..(i - 1) : fs[j].bytes < fs[i].bytes
        low == CHOOSE i \in 1..Len(fs) :
                 /\ \A j \in 1..Len(fs) : fs[j].bytes >= fs[i].bytes
                 /\ \A j \in 1..(i - 1) : fs[j].bytes > fs[i].bytes
    IN /\ call.out.largestFile = [path |-> fs[top].key, bytes |-> fs[top].bytes]
       /\ call.out.smallestFile = [path |-> fs[low].key, bytes |-> fs[low].bytes]

\* C28: metrics on an empty cache.  All four numbers are 0 and largestFile
\* and smallestFile are both {path: 'none', bytes: 0}.
C28_MetricsEmpty ==
  (call.op = "getMetrics" /\ call.files = << >>) =>
    call.out = [totalFiles |-> 0, totalBytes |-> 0, totalLines |-> 0, averageFileSize |-> 0,
                largestFile |-> [path |-> "none", bytes |-> 0],
                smallestFile |-> [path |-> "none", bytes |-> 0]]

\* the first revision, which has no early return, asked on the empty cache
C28_Witness ==
  call.op = "getMetrics" /\ call.rev = 1 /\ call.files = << >> /\ call.out.totalFiles = 0

\* C29: for a cache that is not empty, largestFile.path and
\* smallestFile.path are keys of the cache, never '' and never 'none', also
\* when files have 0 bytes.
C29_MetricsPathsAreKeys ==
  (call.op = "getMetrics" /\ call.files # << >>) =>
    /\ \E i \in 1..Len(call.files) : call.files[i].key = call.out.largestFile.path
    /\ \E i \in 1..Len(call.files) : call.files[i].key = call.out.smallestFile.path

\* C30: document identity.  After the initial load and after every update
\* of a path, the path field of every cached document is the key of its
\* entry, so that the filePath of every search result is a key under which
\* the document is found.
C30_DocumentIdentity ==
  impl = "cm" =>
    /\ \A i \in 1..Len(cache) : cache[i].doc.path = cache[i].key
    /\ \A q \in Queries : \A i \in 1..Len(searchInFiles(impl, cache, q)) :
         MapHas(cache, searchInFiles(impl, cache, q)[i].filePath)

\* C31: parser soft-fail.  Whatever the text, a file that can be read is
\* loaded: the parse does not fail to the caller, and a metadata block that
\* cannot be decoded gives a document with empty metadata and the whole
\* text, block included, as its content.
C31_ParserSoftFail ==
  (call.op = "loadFile" /\ call.readOk) =>
    /\ call.lf.ok /\ call.entry.ok
    /\ call.fm \in BadBlocks =>
         /\ call.lf.frontmatter = {} /\ call.lf.content = call.content
         /\ call.entry = call.lf

\* how often the character ch stands in s

\* C32: derived size fields.  Every document that the load puts into the
\* cache has as lines the number of segments of its content between line
\* feeds (one more than its line feeds: at least 1, and 1 for the empty
\* content) and as bytes the length of its content in UTF-8.
C32_DerivedSizes ==
  (call.op = "loadFile" /\ call.entry.ok) =>
    /\ call.entry.lines = Cardinality({i \in 1..Len(call.entry.content) :
                                         SubSeq(call.entry.content, i, i) = "\n"}) + 1
    /\ call.entry.lines >= 1
    /\ call.entry.bytes = Len(call.entry.content) +
         Cardinality({i \in 1..Len(call.entry.content) :
                        SubSeq(call.entry.content, i, i) = "#"})

\* the fiber or timer that the record of a path stands for

\* C33: pending-record lifecycle.  The map of pending updates holds a record
\* only for a path whose timer is sleeping or whose update is running, and
\* none when there is neither; a record goes away only when its own timer
\* fires or is cancelled or its own update ends, and the end of an update
\* that a newer event has superseded leaves the record of the newer event.
C33_PendingLifecycle ==
  [][\A p \in Paths :
       /\ pending'[p] # 0 => \E t \in tasks' : t.path = p /\ t.ev = pending'[p]
       /\ (\A t \in tasks' : t.path # p) => pending'[p] = 0
       /\ (pending[p] # 0 /\ pending'[p] # pending[p])
            => \A t \in {u \in tasks : u.path = p /\ u.ev = pending[p]} :
                    t \notin tasks' \/ t.pc = "sleep"
       /\ (\E t \in tasks \ tasks' : t.path = p /\ t.ev # pending[p] /\ phase' = phase)
            => pending'[p] = pending[p]
    ]_vars

\* an update superseded by a newer event is still running while the timer
\* of the newer event is recorded
C33_Witness ==
  \E p \in Paths :
    /\ \E t \in tasks : t.path = p /\ t.ev = 1 /\ t.pc # "sleep"
    /\ \E t \in tasks : t.path = p /\ t.ev = 2 /\ t.pc = "sleep" /\ pending[p] = 2

\* C35: single applier per path.  At no time are two updates of the same
\* path running at once: the update of a newer event starts only when the
\* one of the older event has ended or has been cancelled.
C35_SingleApplier ==
  \A p \in Paths : Cardinality({t \in tasks : t.path = p /\ t.pc # "sleep"}) <= 1

\* C37: an update of a path that exists and is not a regular file (a
\* directory named 'a.md') leaves the cache unchanged: the step in which
\* such an update ends neither inserts nor removes an entry.
C37_NotRegularUnchanged ==
  [][(\E t \in tasks : /\ t.pc = "stat"
                        /\ FsStat(disk[t.path].kind) = "Directory"
                        /\ t \notin tasks') => cache' = cache]_vars

\* a directory was applied over an entry that is still cached
C37_Witness ==
  \E p \in Paths : /\ lastApply[p].obs = "other"
                   /\ disk[p].kind = "dir"
                   /\ MapGet(cache, p) # NoDoc

\* C36: event filter.  A watch event whose path does not end with '.md'
\* schedules no timer and changes neither the pending map nor the cache; a
\* timer exists for '.md' paths only, and once the watcher runs the cache
\* changes only when the update of a '.md' path ends, and only at that path.
C36_EventFilter ==
  [][/\ (call' # call /\ call'.op = "event" /\ ~endsWith(call'.path, ".md")) =>
          /\ tasks' = tasks
          /\ pending' = pending
          /\ cache' = cache
     /\ \A t \in tasks' : endsWith(t.path, ".md")
     /\ (phase = "up" /\ cache' # cache) =>
          \E t \in tasks \ tasks' :
             /\ endsWith(t.path, ".md")
             /\ \A q \in Paths \ {t.path} : MapGet(cache', q) = MapGet(cache, q)
    ]_vars

\* an event for 'c.txt' was handled while a timer was pending, and the cache
\* holds an entry
C36_Witness ==
  /\ call.op = "event" /\ call.path = "c.txt"
  /\ \E t \in tasks : t.pc = "sleep"
  /\ cache # EmptyMap

\* C38: queries are read-only.  No step of getFile, getFileContent,
\* getAllFiles, searchInFiles, searchByFolder, getFilePaths or getMetrics
\* changes the cache or the pending map, and a change that the caller makes
\* to the map returned by getAllFiles does not change the cache.
C38_QueriesReadOnly ==
  [][(\E c \in {call, call'} :
        c.op \in {"getFile", "getFileContent", "getAllFiles", "searchInFiles",
                  "searchByFolder", "getFilePaths", "getMetrics"}) =>
        /\ cache' = cache
        /\ pending' = pending]_vars

\* the caller has changed the map that getAllFiles returned for a cache of
\* three entries, and the cache still holds them
C38_Witness ==
  /\ call.op = "getAllFiles" /\ call.modified
  /\ Len(cache) = MaxKeys
  /\ call.out.map # getAllFiles(cache)

\* C34: eventual convergence.  When from some time on every change of the
\* vault has been followed by an event for its path, then from some time on
\* no timer is pending, no update is running and, for every path that
\* received an event, the cache holds the path exactly when it is a regular
\* file on disk, with the content of its final state.
C34_EventualConvergence ==
  <>[](\A p \in Paths :
         disk[p].ver = 0 \/ (burst[p].n >= 1 /\ burst[p].ver0 = disk[p].ver))
    => <>[](/\ tasks = {}
            /\ \A p \in Paths :
                 lastEv[p] > 0 =>
                   /\ MapHas(cache, p) <=> disk[p].kind \in RegularKinds
                   /\ MapHas(cache, p) => MapGet(cache, p).ver = disk[p].ver)

====
